---------------------------- MODULE Spec2Model ----------------------------
(***************************************************************************)
(* The text-region detection pipeline of src/src/components/OCRForm.tsx    *)
(* (detectTextRegions): Otsu threshold, binarisation, two-pass connected   *)
(* component labelling, bounding boxes, noise filter, proximity merge and  *)
(* the mapping of the merged boxes back to original-image coordinates.     *)
(*                                                                         *)
(* JavaScript numbers are IEEE 754 binary64.  Where the code divides or    *)
(* multiplies non-integers (the class means and the between-class variance *)
(* of the threshold search, the scale factor and the box coordinates       *)
(* divided by it) the model computes the binary64 result, rounding to      *)
(* nearest-even after every operation, with arbitrary-precision naturals   *)
(* held as little-endian sequences of limbs.                               *)
(***************************************************************************)
EXTENDS Integers, Sequences, FiniteSets

(***************************************************************************)
(* Arbitrary-precision naturals: little-endian limbs, no leading zero limb.*)
(***************************************************************************)
LimbBits == 13
LimbBase == 2 ^ LimbBits

Min2(a, b) == IF a <= b THEN a ELSE b
Max2(a, b) == IF a >= b THEN a ELSE b

RECURSIVE IntBitLen(_)
IntBitLen(n) == IF n = 0 THEN 0 ELSE 1 + IntBitLen(n \div 2)

RECURSIVE BigNorm(_)
BigNorm(a) ==
  IF a = <<>> THEN <<>>
  ELSE IF a[Len(a)] = 0 THEN BigNorm(SubSeq(a, 1, Len(a) - 1))
  ELSE a

RECURSIVE BigFromInt(_)
BigFromInt(n) ==
  IF n = 0 THEN <<>> ELSE <<n % LimbBase>> \o BigFromInt(n \div LimbBase)

RECURSIVE BigToInt(_)
BigToInt(a) ==
  IF a = <<>> THEN 0 ELSE Head(a) + LimbBase * BigToInt(Tail(a))

\* limbs that may exceed the base, with an incoming carry, brought back to limbs
RECURSIVE BigCarry(_, _)
BigCarry(a, c) ==
  IF a = <<>> THEN BigFromInt(c)
  ELSE LET v == Head(a) + c
       IN  <<v % LimbBase>> \o BigCarry(Tail(a), v \div LimbBase)

BigLimb(a, i) == IF i <= Len(a) THEN a[i] ELSE 0

BigAdd(a, b) ==
  BigCarry([i \in 1..Max2(Len(a), Len(b)) |-> BigLimb(a, i) + BigLimb(b, i)], 0)

\* a - b for a >= b
RECURSIVE BigSubB(_, _, _)
BigSubB(a, b, borrow) ==
  IF a = <<>> THEN <<>>
  ELSE LET bh == IF b = <<>> THEN 0 ELSE Head(b)
           bt == IF b = <<>> THEN <<>> ELSE Tail(b)
           v  == Head(a) - bh - borrow
       IN  IF v < 0 THEN <<v + LimbBase>> \o BigSubB(Tail(a), bt, 1)
           ELSE <<v>> \o BigSubB(Tail(a), bt, 0)

BigSub(a, b) == BigNorm(BigSubB(a, b, 0))

\* -1, 0, 1 as a < b, a = b, a > b
RECURSIVE BigCmpFrom(_, _, _)
BigCmpFrom(a, b, i) ==
  IF i = 0 THEN 0
  ELSE IF a[i] < b[i] THEN -1
  ELSE IF a[i] > b[i] THEN 1
  ELSE BigCmpFrom(a, b, i - 1)

BigCmp(a, b) ==
  IF Len(a) < Len(b) THEN -1
  ELSE IF Len(a) > Len(b) THEN 1
  ELSE BigCmpFrom(a, b, Len(a))

\* a * k for a small k (k < 2^18)
BigMulSmall(a, k) ==
  IF k = 0 THEN <<>> ELSE BigCarry([i \in 1..Len(a) |-> a[i] * k], 0)

RECURSIVE BigMul(_, _)
BigMul(a, b) ==
  IF a = <<>> \/ b = <<>> THEN <<>>
  ELSE LET rest == BigMul(a, Tail(b))
       IN  BigAdd(BigMulSmall(a, Head(b)),
                  IF rest = <<>> THEN <<>> ELSE <<0>> \o rest)

BigBitLen(a) ==
  IF a = <<>> THEN 0 ELSE LimbBits * (Len(a) - 1) + IntBitLen(a[Len(a)])

\* a * 2^s
BigShl(a, s) ==
  IF a = <<>> THEN <<>>
  ELSE [i \in 1..(s \div LimbBits) |-> 0] \o BigMulSmall(a, 2 ^ (s % LimbBits))

\* floor(a / 2^s)
BigShr(a, s) ==
  LET q == s \div LimbBits
      r == s % LimbBits
      d == IF q >= Len(a) THEN <<>> ELSE SubSeq(a, q + 1, Len(a))
  IN  BigNorm([i \in 1..Len(d) |->
         (d[i] \div (2 ^ r)) + (BigLimb(d, i + 1) % (2 ^ r)) * (2 ^ (LimbBits - r))])

\* a mod 2^s = 0
BigLowZero(a, s) ==
  LET q == s \div LimbBits
      r == s % LimbBits
  IN  /\ \A i \in 1..Min2(q, Len(a)) : a[i] = 0
      /\ BigLimb(a, q + 1) % (2 ^ r) = 0

BigBit(a, i) == (BigLimb(a, (i \div LimbBits) + 1) \div (2 ^ (i % LimbBits))) % 2

BigOdd(a) == BigLimb(a, 1) % 2 = 1

\* a / 2^s rounded to the nearest integer, ties to even (s >= 1)
BigShrRound(a, s) ==
  LET q == BigShr(a, s)
  IN  IF BigBit(a, s - 1) = 1 /\ (~BigLowZero(a, s - 1) \/ BigOdd(q))
      THEN BigAdd(q, <<1>>)
      ELSE q

\* <<floor(a / b), a mod b>> for a small b (b < 2^18), limbs taken from the top
RECURSIVE BigShortDiv(_, _, _, _)
BigShortDiv(a, b, i, rem) ==
  IF i = 0 THEN <<<<>>, rem>>
  ELSE LET v    == rem * LimbBase + a[i]
           rest == BigShortDiv(a, b, i - 1, v % b)
       IN  <<rest[1] \o <<v \div b>>, rest[2]>>

\* binary long division of n by d over the cnt quotient bits from bit i down:
\* <<those quotient bits (after the bits q), the remainder>>
RECURSIVE BigDivBits(_, _, _, _, _)
BigDivBits(n, d, i, cnt, q) ==
  IF cnt = 0 THEN <<q, n>>
  ELSE LET ds == BigShl(d, i)
       IN  IF BigCmp(n, ds) >= 0
           THEN BigDivBits(BigSub(n, ds), d, i - 1, cnt - 1, 2 * q + 1)
           ELSE BigDivBits(n, d, i - 1, cnt - 1, 2 * q)

\* <<floor(n / d), n mod d>> for a quotient below 2^(5 * 12), twelve bits at a time
BigLongDiv(n, d) ==
  LET c1 == BigDivBits(n, d, 59, 12, 0)
      c2 == BigDivBits(c1[2], d, 47, 12, 0)
      c3 == BigDivBits(c2[2], d, 35, 12, 0)
      c4 == BigDivBits(c3[2], d, 23, 12, 0)
      c5 == BigDivBits(c4[2], d, 11, 12, 0)
      q  == BigAdd(BigShl(BigFromInt(c1[1]), 48),
            BigAdd(BigShl(BigFromInt(c2[1]), 36),
            BigAdd(BigShl(BigFromInt(c3[1]), 24),
            BigAdd(BigShl(BigFromInt(c4[1]), 12), BigFromInt(c5[1])))))
  IN  <<q, c5[2]>>

(***************************************************************************)
(* Non-negative binary64 numbers: [m |-> significand, e |-> exponent], the *)
(* value m * 2^e with m below 2^53.  Every operation computes the exact    *)
(* result and rounds it once, to nearest, ties to even.  (The values met   *)
(* here are far from the subnormal and overflow ranges.)                   *)
(***************************************************************************)
SignificandBits == 53

FZero == [m |-> <<>>, e |-> 0]

\* the canonical record of m * 2^e for m < 2^53: m odd, or zero
RECURSIVE FCanon(_, _)
FCanon(m, e) ==
  IF m = <<>> THEN FZero
  ELSE IF BigOdd(m) THEN [m |-> m, e |-> e]
  ELSE LET z == IF m[1] = 0 THEN LimbBits
                ELSE IF m[1] % 16 = 0 THEN 4 ELSE 1
       IN  FCanon(BigShr(m, z), e + z)

\* the binary64 nearest to a * 2^e
FRound(a, e) ==
  LET n == BigBitLen(a)
  IN  IF n <= SignificandBits THEN FCanon(a, e)
      ELSE FCanon(BigShrRound(a, n - SignificandBits), e + (n - SignificandBits))

FFromInt(n) == FCanon(BigFromInt(n), 0)

\* -1, 0, 1 as x < y, x = y, x > y
FCmp(x, y) ==
  IF x.m = <<>> /\ y.m = <<>> THEN 0
  ELSE IF x.m = <<>> THEN -1
  ELSE IF y.m = <<>> THEN 1
  ELSE LET hx == BigBitLen(x.m) + x.e
           hy == BigBitLen(y.m) + y.e
           e  == Min2(x.e, y.e)
       IN  IF hx < hy THEN -1
           ELSE IF hx > hy THEN 1
           ELSE BigCmp(BigShl(x.m, x.e - e), BigShl(y.m, y.e - e))

FMin(x, y) == IF FCmp(x, y) <= 0 THEN x ELSE y
FMax(x, y) == IF FCmp(x, y) >= 0 THEN x ELSE y

\* x - y for x >= y
FSub(x, y) ==
  IF y.m = <<>> THEN x
  ELSE LET e == Min2(x.e, y.e)
       IN  FRound(BigSub(BigShl(x.m, x.e - e), BigShl(y.m, y.e - e)), e)

FMul(x, y) == FRound(BigMul(x.m, y.m), x.e + y.e)

\* x / y for y > 0: the quotient to 56 or more bits, its last bit set when the
\* division left a remainder, then rounded
FDiv(x, y) ==
  IF x.m = <<>> THEN FZero
  ELSE LET k  == Max2(0, SignificandBits + 3 + BigBitLen(y.m) - BigBitLen(x.m))
           n  == BigShl(x.m, k)
           qr == BigLongDiv(n, y.m)
           q2 == BigAdd(BigShl(qr[1], 1), IF qr[2] = <<>> THEN <<>> ELSE <<1>>)
       IN  FRound(q2, x.e - y.e - k - 1)

\* a / b for integers a >= 0 and 0 < b < 2^18
FDivInt(a, b) ==
  IF a = 0 THEN FZero
  ELSE LET k  == 2 * SignificandBits
           n  == BigShl(BigFromInt(a), k)
           qr == BigShortDiv(n, b, Len(n), 0)
           q2 == BigAdd(BigShl(BigNorm(qr[1]), 1), IF qr[2] = 0 THEN <<>> ELSE <<1>>)
       IN  FRound(q2, 0 - k - 1)

\* Math.floor and Math.ceil of x >= 0, as integers
FFloor(x) ==
  IF x.e >= 0 THEN BigToInt(BigShl(x.m, x.e)) ELSE BigToInt(BigShr(x.m, 0 - x.e))

FCeil(x) ==
  IF x.e >= 0 THEN BigToInt(BigShl(x.m, x.e))
  ELSE BigToInt(BigShr(x.m, 0 - x.e)) + (IF BigLowZero(x.m, 0 - x.e) THEN 0 ELSE 1)


(***************************************************************************)
(* The program's constants.  TargetDim is 2000 in the source: the model    *)
(* runs the same pipeline under a smaller working-resolution ceiling, so   *)
(* that every pixel of a canvas can be enumerated.                         *)
(***************************************************************************)
TargetDim == 100
MinScale == 2
HistogramBins == 256
Ink == 0
Paper == 255
minArea == 400
distance == 30
padding == 10

VARIABLES
  pc,               \* the statement detectTextRegions' onload handler is at
  imgWidth,         \* img.width
  imgHeight,        \* img.height
  scale,            \* scale, a binary64
  width,            \* canvas.width
  height,           \* canvas.height
  data,             \* the grayscale canvas: pixel index -> luminance (R = G = B)
  pData,            \* the buffer the threshold is taken from and binarized in place
  histogram,
  threshold,
  labels,           \* labels[y][x], held by pixel index y * width + x
  nextLabel,
  equivalences,     \* the keys recorded so far -> label
  pos,              \* the pixel pass 1 is at (y * width + x)
  boxes,            \* the box objects by label
  significantBoxes, \* references (labels) to the boxes that pass the noise filter
  result,           \* mergeBoxes' working list of references
  regions,          \* the bbox of every region, in the order of the merged list
  isProcessing,     \* the component's isProcessing state
  caller,           \* the statement processImage is at
  awaited,          \* the regions the await of detectTextRegions handed to processImage
  regionResults,    \* the recognition call of every region: the statement it is at
  caught,           \* whether processImage's catch block has run
  runs,             \* the runs of processImage the component has started, in order
  ocrResult,        \* the component's ocrResult state: the run it came from, or none
  imagePreview,     \* the component's imagePreview state, likewise
  currentPage,      \* the component's currentPage state
  totalPages,       \* the component's totalPages state
  files             \* fileInputRef.current.files[0], or none

\* the state of processImage, the caller of detectTextRegions
processVars == <<isProcessing, caller, awaited, regionResults, caught>>

\* the state of the component that outlives a run of processImage
componentVars == <<runs, ocrResult, imagePreview, currentPage, totalPages, files>>

vars == <<pc, imgWidth, imgHeight, scale, width, height, data, pData, histogram,
          threshold, labels, nextLabel, equivalences, pos, boxes,
          significantBoxes, result, regions, processVars, componentVars>>

NoFile == [type |-> "none", numPages |-> 0]

\* a state that holds no result: null
None == [run |-> 0, file |-> NoFile, page |-> 0]

\* the component as useState and useRef make it
Mounted ==
  /\ runs = <<>>
  /\ ocrResult = None
  /\ imagePreview = None
  /\ currentPage = 1
  /\ totalPages = 1
  /\ files = NoFile

EmptyMap == [k \in {} |-> 0]

Pixels == 0..(width * height - 1)

\* Math.max(2, Math.min(2000 / img.width, 2000 / img.height))
ScaleOf(w, h) ==
  FMax(FFromInt(MinScale), FMin(FDivInt(TargetDim, w), FDivInt(TargetDim, h)))

\* canvas.width = img.width * scale: the product, truncated to an integer
CanvasDim(n, sc) == FFloor(FMul(FFromInt(n), sc))

(***************************************************************************)
(* Otsu threshold.                                                         *)
(***************************************************************************)
Histogram(pd) ==
  LET present == {pd[p] : p \in DOMAIN pd}
  IN  [v \in 0..(HistogramBins - 1) |->
         IF v \in present THEN Cardinality({p \in DOMAIN pd : pd[p] = v}) ELSE 0]

\* the sum of i * hist[i] over the bins lo..hi
RECURSIVE WeightedSum(_, _, _)
WeightedSum(hist, lo, hi) ==
  IF lo = hi THEN lo * hist[lo]
  ELSE LET mid == (lo + hi) \div 2
       IN  WeightedSum(hist, lo, mid) + WeightedSum(hist, mid + 1, hi)

\* wB * wF * Math.pow(mB - mF, 2), every step in binary64 (mB < mF, and the
\* square of the difference does not depend on its sign)
Variance(wB, wF, sumB, sum) ==
  LET mB == FDivInt(sumB, wB)
      mF == FDivInt(sum - sumB, wF)
      d  == FSub(mF, mB)
  IN  FMul(FFromInt(wB * wF), FMul(d, d))

\* a comparison that lets an equal variance replace the maximum
VarianceNotLess(variance, maxVariance) == FCmp(variance, maxVariance) >= 0

VarianceGreater(variance, maxVariance) == FCmp(variance, maxVariance) > 0

\* one iteration of the loop over t, on the loop's variables o; o.broke is set
\* by the break.  The variance of an empty bin t is the one computed at t - 1
\* (the same operands give the same binary64 result): o.variance.
OtsuIteration(hist, total, sum, o, t) ==
  IF o.broke THEN o
  ELSE LET wB == o.wB + hist[t]
       IN  IF wB = 0 THEN [o EXCEPT !.wB = wB]
           ELSE LET wF == total - wB
                IN  IF wF = 0 THEN [o EXCEPT !.wB = wB, !.broke = TRUE]
                    ELSE LET sumB == o.sumB + t * hist[t]
                             variance ==
                               IF hist[t] = 0 THEN o.variance
                               ELSE Variance(wB, wF, sumB, sum)
                         IN  IF VarianceGreater(variance, o.maxVariance)
                             THEN [o EXCEPT !.wB = wB, !.sumB = sumB,
                                            !.variance = variance,
                                            !.maxVariance = variance,
                                            !.threshold = t]
                             ELSE [o EXCEPT !.wB = wB, !.sumB = sumB,
                                            !.variance = variance]

\* the iterations for t = lo..hi, in order
RECURSIVE OtsuLoop(_, _, _, _, _, _)
OtsuLoop(hist, total, sum, o, lo, hi) ==
  IF lo = hi THEN OtsuIteration(hist, total, sum, o, lo)
  ELSE LET mid   == (lo + hi) \div 2
           first == OtsuLoop(hist, total, sum, o, lo, mid)
       IN  IF first.broke THEN first
           ELSE OtsuLoop(hist, total, sum, first, mid + 1, hi)

\* a threshold halfway between the lowest and the highest occupied bin
MidpointThreshold(hist, total) ==
  LET occupied == {v \in DOMAIN hist : hist[v] > 0}
      lowest   == CHOOSE m \in occupied : \A v \in occupied : m <= v
      highest  == CHOOSE m \in occupied : \A v \in occupied : m >= v
  IN  (lowest + highest) \div 2

\* a threshold at the mean luminance
MeanThreshold(hist, total) == WeightedSum(hist, 0, HistogramBins - 1) \div total

OtsuThreshold(hist, total) ==
  OtsuLoop(hist, total, WeightedSum(hist, 0, HistogramBins - 1),
           [sumB |-> 0, wB |-> 0, variance |-> FZero, maxVariance |-> FZero,
            threshold |-> 0, broke |-> FALSE],
           0, HistogramBins - 1).threshold

\* a comparison that also takes the threshold itself for ink
IsInkOrEqual(value, thr) == value <= thr

IsInk(value, thr) == value < thr

Binarized(pd, thr) == [p \in DOMAIN pd |-> IF IsInk(pd[p], thr) THEN Ink ELSE Paper]

(***************************************************************************)
(* Connected-component labelling.                                          *)
(***************************************************************************)
\* a mask without the top-right neighbour
NeighborsLeftTop(bin, lbls, w, p) ==
  LET x == p % w
      y == p \div w
  IN  (IF x > 0 /\ bin[p - 1] = Ink THEN <<lbls[p - 1]>> ELSE <<>>)
      \o (IF y > 0 /\ bin[p - w] = Ink THEN <<lbls[p - w]>> ELSE <<>>)
      \o (IF x > 0 /\ y > 0 /\ bin[p - w - 1] = Ink THEN <<lbls[p - w - 1]>> ELSE <<>>)

\* the labels pushed for pixel p, in the order left, top, top-left, top-right
Neighbors(bin, lbls, w, p) ==
  LET x == p % w
      y == p \div w
  IN  (IF x > 0 /\ bin[p - 1] = Ink THEN <<lbls[p - 1]>> ELSE <<>>)
      \o (IF y > 0 /\ bin[p - w] = Ink THEN <<lbls[p - w]>> ELSE <<>>)
      \o (IF x > 0 /\ y > 0 /\ bin[p - w - 1] = Ink THEN <<lbls[p - w - 1]>> ELSE <<>>)
      \o (IF x < w - 1 /\ y > 0 /\ bin[p - w + 1] = Ink THEN <<lbls[p - w + 1]>> ELSE <<>>)

\* the largest of the pushed labels
MaxLabel(neighbors) ==
  LET pos0 == {neighbors[i] : i \in 1..Len(neighbors)} \ {0}
  IN  CHOOSE m \in pos0 : \A l \in pos0 : m >= l

\* Math.min(...neighbors.filter(l => l > 0))
MinLabel(neighbors) ==
  LET pos0 == {neighbors[i] : i \in 1..Len(neighbors)} \ {0}
  IN  CHOOSE m \in pos0 : \A l \in pos0 : m <= l

\* equivalences[n] = minLabel for every pushed n > 0 other than minLabel
Record(eq, neighbors, minLabel) ==
  LET keys == {neighbors[i] : i \in 1..Len(neighbors)} \ {0, minLabel}
  IN  [k \in (DOMAIN eq) \cup keys |-> IF k \in keys THEN minLabel ELSE eq[k]]

RECURSIVE Follow(_, _)
Follow(eq, curr) ==
  IF curr \in DOMAIN eq /\ eq[curr] # 0 /\ eq[curr] # curr
  THEN Follow(eq, eq[curr])
  ELSE curr

resolveLabel(eq, label) == IF label = 0 THEN 0 ELSE Follow(eq, label)

(***************************************************************************)
(* Bounding boxes.                                                         *)
(***************************************************************************)
\* an extent loop body that creates the boxes and never expands them
ExtendNever(bx, lbls, w, p) ==
  LET label == lbls[p]
      x == p % w
      y == p \div w
  IN  IF label = 0 \/ label \in DOMAIN bx THEN bx
      ELSE [k \in (DOMAIN bx) \cup {label} |->
              IF k = label THEN [minX |-> x, minY |-> y, maxX |-> x, maxY |-> y]
              ELSE bx[k]]

\* the body of the extent loop for the pixel p
Extend(bx, lbls, w, p) ==
  LET label == lbls[p]
      x == p % w
      y == p \div w
  IN  IF label = 0 THEN bx
      ELSE IF label \notin DOMAIN bx
      THEN [k \in (DOMAIN bx) \cup {label} |->
              IF k = label THEN [minX |-> x, minY |-> y, maxX |-> x, maxY |-> y]
              ELSE bx[k]]
      ELSE [bx EXCEPT ![label] =
              [minX |-> Min2(@.minX, x), minY |-> Min2(@.minY, y),
               maxX |-> Max2(@.maxX, x), maxY |-> Max2(@.maxY, y)]]

\* the extent loop over the pixels lo..hi, in raster order
RECURSIVE ExtentLoop(_, _, _, _, _)
ExtentLoop(bx, lbls, w, lo, hi) ==
  IF lo = hi THEN Extend(bx, lbls, w, lo)
  ELSE LET mid   == (lo + hi) \div 2
           first == ExtentLoop(bx, lbls, w, lo, mid)
       IN  IF DOMAIN first = {-1} THEN first
           ELSE ExtentLoop(first, lbls, w, mid + 1, hi)

\* the keys of an object in the order Object.values visits them: ascending
RECURSIVE KeysInOrder(_)
KeysInOrder(keys) ==
  IF keys = {} THEN <<>>
  ELSE LET k == CHOOSE m \in keys : \A l \in keys : m <= l
       IN  <<k>> \o KeysInOrder(keys \ {k})

\* a filter on the number of pixels a box spans
IsSignificantCount(box) ==
  LET w == box.maxX - box.minX + 1
      h == box.maxY - box.minY + 1
  IN  w * h > minArea

IsSignificant(box) ==
  LET w == box.maxX - box.minX
      h == box.maxY - box.minY
  IN  w * h > minArea

RECURSIVE SelectSeq2(_, _)
SelectSeq2(bx, keys) ==
  IF keys = <<>> THEN <<>>
  ELSE (IF IsSignificant(bx[Head(keys)]) THEN <<Head(keys)>> ELSE <<>>)
       \o SelectSeq2(bx, Tail(keys))

\* Object.values(boxes).filter(...), as references into boxes
Significant(bx) == SelectSeq2(bx, KeysInOrder(DOMAIN bx))

(***************************************************************************)
(* mergeBoxes.                                                             *)
(***************************************************************************)
\* a closeness test with twice the distance
isCloseTwice(box1, box2) ==
  /\ box1.minX - 2 * distance <= box2.maxX /\ box1.maxX + 2 * distance >= box2.minX
  /\ box1.minY - 2 * distance <= box2.maxY /\ box1.maxY + 2 * distance >= box2.minY

isClose(box1, box2) ==
  /\ box1.minX - distance <= box2.maxX /\ box1.maxX + distance >= box2.minX
  /\ box1.minY - distance <= box2.maxY /\ box1.maxY + distance >= box2.minY

ClosePairs(bx, res) ==
  {ij \in (1..Len(res)) \X (1..Len(res)) :
     ij[1] < ij[2] /\ isClose(bx[res[ij[1]]], bx[res[ij[2]]])}

\* the pair the nested for loops reach first: the least i, then the least j
FirstClosePair(bx, res) ==
  CHOOSE ij \in ClosePairs(bx, res) :
    \A kl \in ClosePairs(bx, res) :
      ij[1] < kl[1] \/ (ij[1] = kl[1] /\ ij[2] <= kl[2])

\* a merge that keeps the first box as it is
KeepFirst(box1, box2) == box1

Union(box1, box2) ==
  [minX |-> Min2(box1.minX, box2.minX), minY |-> Min2(box1.minY, box2.minY),
   maxX |-> Max2(box1.maxX, box2.maxX), maxY |-> Max2(box1.maxY, box2.maxY)]

\* a splice that removes nothing
SpliceNone(res, j) == res

\* result.splice(j, 1)
Splice(res, j) == SubSeq(res, 1, j - 1) \o SubSeq(res, j + 1, Len(res))

\* a loop that stops after its first pass
LoopOnce(merged) == FALSE

\* while (merged): whether the loop runs again after a pass
LoopAgain(merged) == merged

\* one pass of the while loop's body over the box objects bx and the list res
MergePass(bx, res) ==
  IF ClosePairs(bx, res) = {}
  THEN [boxes |-> bx, result |-> res, merged |-> FALSE]
  ELSE LET ij == FirstClosePair(bx, res)
       IN  [boxes  |-> [bx EXCEPT ![res[ij[1]]] = Union(bx[res[ij[1]]], bx[res[ij[2]]])],
            result |-> Splice(res, ij[2]),
            merged |-> TRUE]

\* mergeBoxes applied to the list res of references into bx
RECURSIVE MergeLoop(_, _)
MergeLoop(bx, res) ==
  LET m == MergePass(bx, res)
  IN  IF LoopAgain(m.merged) THEN MergeLoop(m.boxes, m.result) ELSE m

mergeBoxes(bx, res) ==
  IF Len(res) <= 1 THEN [boxes |-> bx, result |-> res, merged |-> FALSE]
  ELSE MergeLoop(bx, res)

(***************************************************************************)
(* Back to original-image coordinates.                                     *)
(***************************************************************************)
\* a translation that pads and clamps but does not divide by the scale
PaddedBox(box, sc, w, h) ==
  [x0 |-> Max2(0, box.minX - padding), y0 |-> Max2(0, box.minY - padding),
   x1 |-> Min2(w, box.maxX + padding), y1 |-> Min2(h, box.maxY + padding)]

\* a translation that divides and pads but does not clamp to the picture
UnclampedBox(box, sc, w, h) ==
  [x0 |-> FFloor(FDiv(FFromInt(box.minX), sc)) - padding,
   y0 |-> FFloor(FDiv(FFromInt(box.minY), sc)) - padding,
   x1 |-> FCeil(FDiv(FFromInt(box.maxX), sc)) + padding,
   y1 |-> FCeil(FDiv(FFromInt(box.maxY), sc)) + padding]

ScaledBox(box, sc, w, h) ==
  [x0 |-> Max2(0, FFloor(FDiv(FFromInt(box.minX), sc)) - padding),
   y0 |-> Max2(0, FFloor(FDiv(FFromInt(box.minY), sc)) - padding),
   x1 |-> Min2(w, FCeil(FDiv(FFromInt(box.maxX), sc)) + padding),
   y1 |-> Min2(h, FCeil(FDiv(FFromInt(box.maxY), sc)) + padding)]

(***************************************************************************)
(* The inputs.  The working canvas after the grayscale conversion is the   *)
(* input of the pipeline: how drawImage resamples the picture is left to   *)
(* the browser, so the model ranges over canvas contents.                  *)
(***************************************************************************)
FlatImgW == 50          \* a 50 x 1 picture: a 100 x 2 canvas
CutStep == 25           \* class sizes of the sorted canvases: k * CutStep (+ 1)
LightLevels == 3        \* the light canvases use the LightLevels highest values
LabelImgH == 20         \* a 1 x 20 picture: a 5 x 100 canvas
LabelRows == 3          \* the ink of the labelling canvases is in the first rows
MaxInk == 5             \* and has at most MaxInk pixels
RectImgW == 50          \* a 50 x 13 picture: a 100 x 26 canvas
RectImgH == 13
RectSide == 11          \* the rectangles are RectSide (+ RectStep) pixels wide
RectStep == 9
StrokeStep == 20        \* the strokes start StrokeStep columns apart

CanvasW(w, h) == CanvasDim(w, ScaleOf(w, h))
CanvasH(w, h) == CanvasDim(h, ScaleOf(w, h))
CanvasPixels(w, h) == 0..(CanvasW(w, h) * CanvasH(w, h) - 1)

Picture(w, h, d) == [w |-> w, h |-> h, d |-> d]

UniformCanvases(w, h) ==
  {[p \in CanvasPixels(w, h) |-> v] : v \in 0..(HistogramBins - 1)}

CutPoints(n) == {c \in 0..n : c % CutStep <= 1}

\* the canvases whose pixels, in raster order, run through levels in order
SortedCanvases(w, h, levels) ==
  LET n    == CanvasW(w, h) * CanvasH(w, h)
      k    == Len(levels) - 1
      cuts == {c \in [1..k -> CutPoints(n)] : \A i \in 1..(k - 1) : c[i] <= c[i + 1]}
  IN  {[p \in 0..(n - 1) |-> levels[1 + Cardinality({i \in 1..k : c[i] <= p})]] :
         c \in cuts}

LightLevel == HistogramBins - LightLevels
LightValues == [i \in 1..LightLevels |-> LightLevel + i - 1]
\* two narrow clusters of luminances, one at each end of the range
OtsuValues == <<0, 1, 2, 254, 255>>

\* ink (luminance 0) on the pixels of S, one pixel of luminance 1 in the
\* last place, white elsewhere
InkCanvas(w, h, S) ==
  LET n == CanvasW(w, h) * CanvasH(w, h)
  IN  [p \in 0..(n - 1) |-> IF p \in S THEN 0 ELSE IF p = n - 1 THEN 1 ELSE Paper]

LabelCanvases(w, h) ==
  LET window == 0..(CanvasW(w, h) * LabelRows - 1)
  IN  {InkCanvas(w, h, S) : S \in {T \in SUBSET window : Cardinality(T) <= MaxInk}}

\* a picture that is white but for a filled black rectangle, each of its
\* pixels drawn as a block of scale x scale canvas pixels
RectCanvas(w, h, rx, ry, rw, rh) ==
  LET cw == CanvasW(w, h)
      n  == cw * CanvasH(w, h)
      sc == FFloor(ScaleOf(w, h))
  IN  [p \in 0..(n - 1) |->
         IF /\ (p % cw) \div sc >= rx /\ (p % cw) \div sc < rx + rw
            /\ (p \div cw) \div sc >= ry /\ (p \div cw) \div sc < ry + rh
         THEN 0 ELSE Paper]

RectCanvases(w, h) ==
  {RectCanvas(w, h, r[1], 1, r[2], RectSide) :
     r \in {xw \in (1..(w - 2)) \X {RectSide, RectSide + RectStep} :
              xw[1] % RectStep = 1 /\ xw[1] + xw[2] <= w - 1}}

\* one-pixel diagonal strokes from the top row to the bottom row
Stroke(w, h, x0) ==
  {y * CanvasW(w, h) + x0 + y : y \in 0..(CanvasH(w, h) - 1)}

StrokeCanvases(w, h) ==
  {InkCanvas(w, h, Stroke(w, h, 0) \cup more) :
     more \in {{}} \cup {Stroke(w, h, k * StrokeStep) : k \in 1..3}}

\* processImage has set isProcessing and waits for detectTextRegions
Detecting ==
  /\ isProcessing = TRUE
  /\ caller = "detect"
  /\ awaited = <<>>
  /\ regionResults = <<>>
  /\ caught = FALSE

(***************************************************************************)
(* The state after the grayscale conversion of the picture w x h whose     *)
(* working canvas holds d.                                                 *)
(***************************************************************************)
Start(w, h, d) ==
  /\ pc = "histogram"
  /\ imgWidth = w
  /\ imgHeight = h
  /\ scale = ScaleOf(w, h)
  /\ width = CanvasW(w, h)
  /\ height = CanvasH(w, h)
  /\ data = d
  /\ pData = d
  /\ histogram = [v \in 0..(HistogramBins - 1) |-> 0]
  /\ threshold = 0
  /\ labels = [p \in DOMAIN d |-> 0]
  /\ nextLabel = 1
  /\ equivalences = EmptyMap
  /\ pos = 0
  /\ boxes = EmptyMap
  /\ significantBoxes = <<>>
  /\ result = <<>>
  /\ regions = <<>>
  /\ Detecting
  /\ Mounted

FlatPictures ==
  {Picture(FlatImgW, 1, d) : d \in UniformCanvases(FlatImgW, 1)
                                     \cup SortedCanvases(FlatImgW, 1, LightValues)}

InkPictures ==
  {Picture(RectImgW, RectImgH, d) : d \in RectCanvases(RectImgW, RectImgH)
                                           \cup StrokeCanvases(RectImgW, RectImgH)}

Init == \E im \in FlatPictures \cup InkPictures : Start(im.w, im.h, im.d)

InitOtsu == \E d \in SortedCanvases(FlatImgW, 1, OtsuValues) : Start(FlatImgW, 1, d)

InitLabel == \E d \in LabelCanvases(1, LabelImgH) : Start(1, LabelImgH, d)

(***************************************************************************)
(* The steps of img.onload, after the grayscale conversion.                *)
(***************************************************************************)
BuildHistogram ==
  /\ pc = "histogram"
  /\ histogram' = Histogram(pData)
  /\ pc' = "otsu"
  /\ UNCHANGED <<processVars, componentVars>>
  /\ UNCHANGED <<imgWidth, imgHeight, scale, width, height, data, pData, threshold,
                 labels, nextLabel, equivalences, pos, boxes, significantBoxes,
                 result, regions>>

Otsu ==
  /\ pc = "otsu"
  /\ threshold' = OtsuThreshold(histogram, width * height)
  /\ pc' = "binarize"
  /\ UNCHANGED <<processVars, componentVars>>
  /\ UNCHANGED <<imgWidth, imgHeight, scale, width, height, data, pData, histogram,
                 labels, nextLabel, equivalences, pos, boxes, significantBoxes,
                 result, regions>>

Binarize ==
  /\ pc = "binarize"
  /\ pData' = Binarized(pData, threshold)
  /\ pc' = "pass1"
  /\ UNCHANGED <<processVars, componentVars>>
  /\ UNCHANGED <<imgWidth, imgHeight, scale, width, height, data, histogram,
                 threshold, labels, nextLabel, equivalences, pos, boxes,
                 significantBoxes, result, regions>>

\* the body of pass 1 for the foreground pixel p
Pass1Pixel(st, bin, w, p) ==
  LET neighbors == Neighbors(bin, st.labels, w, p)
  IN  IF Len(neighbors) = 0
      THEN [labels       |-> [st.labels EXCEPT ![p] = st.nextLabel],
            nextLabel    |-> st.nextLabel + 1,
            equivalences |-> st.equivalences]
      ELSE [labels       |-> [st.labels EXCEPT ![p] = MinLabel(neighbors)],
            nextLabel    |-> st.nextLabel,
            equivalences |-> Record(st.equivalences, neighbors, MinLabel(neighbors))]

\* pass 1 from the pixel pos on: the background pixels are skipped, up to
\* and including the next foreground pixel, or to the end of the canvas
Pass1Step ==
  /\ pc = "pass1"
  /\ LET rest == {q \in Pixels : q >= pos /\ pData[q] # Paper}
     IN  IF rest = {}
         THEN /\ pos' = width * height
              /\ pc' = "pass2"
              /\ UNCHANGED <<labels, nextLabel, equivalences>>
         ELSE LET q  == CHOOSE m \in rest : \A r \in rest : m <= r
                  st == Pass1Pixel([labels |-> labels, nextLabel |-> nextLabel,
                                    equivalences |-> equivalences], pData, width, q)
              IN  /\ labels' = st.labels
                  /\ nextLabel' = st.nextLabel
                  /\ equivalences' = st.equivalences
                  /\ pos' = q + 1
                  /\ pc' = "pass1"
  /\ UNCHANGED <<processVars, componentVars>>
  /\ UNCHANGED <<imgWidth, imgHeight, scale, width, height, data, pData, histogram,
                 threshold, boxes, significantBoxes, result, regions>>

Pass2 ==
  /\ pc = "pass2"
  /\ labels' = [p \in DOMAIN labels |->
                  IF labels[p] > 0 THEN resolveLabel(equivalences, labels[p])
                  ELSE labels[p]]
  /\ pc' = "boxes"
  /\ UNCHANGED <<processVars, componentVars>>
  /\ UNCHANGED <<imgWidth, imgHeight, scale, width, height, data, pData, histogram,
                 threshold, nextLabel, equivalences, pos, boxes, significantBoxes,
                 result, regions>>

ComputeBoxes ==
  /\ pc = "boxes"
  /\ boxes' = ExtentLoop(EmptyMap, labels, width, 0, width * height - 1)
  /\ pc' = "filter"
  /\ UNCHANGED <<processVars, componentVars>>
  /\ UNCHANGED <<imgWidth, imgHeight, scale, width, height, data, pData, histogram,
                 threshold, labels, nextLabel, equivalences, pos, significantBoxes,
                 result, regions>>

Filter ==
  /\ pc = "filter"
  /\ significantBoxes' = Significant(boxes)
  /\ pc' = "mergeBoxes"
  /\ UNCHANGED <<processVars, componentVars>>
  /\ UNCHANGED <<imgWidth, imgHeight, scale, width, height, data, pData, histogram,
                 threshold, labels, nextLabel, equivalences, pos, boxes, result,
                 regions>>

\* the call of mergeBoxes, up to the while loop
MergeBegin ==
  /\ pc = "mergeBoxes"
  /\ result' = significantBoxes
  /\ pc' = IF Len(significantBoxes) <= 1 THEN "scaledBoxes" ELSE "merge"
  /\ UNCHANGED <<processVars, componentVars>>
  /\ UNCHANGED <<imgWidth, imgHeight, scale, width, height, data, pData, histogram,
                 threshold, labels, nextLabel, equivalences, pos, boxes,
                 significantBoxes, regions>>

\* one pass of the while loop
MergeScan ==
  /\ pc = "merge"
  /\ LET m == MergePass(boxes, result)
     IN  /\ boxes' = m.boxes
         /\ result' = m.result
         /\ pc' = IF LoopAgain(m.merged) THEN "merge" ELSE "scaledBoxes"
  /\ UNCHANGED <<processVars, componentVars>>
  /\ UNCHANGED <<imgWidth, imgHeight, scale, width, height, data, pData, histogram,
                 threshold, labels, nextLabel, equivalences, pos, significantBoxes,
                 regions>>

ScaleBoxes ==
  /\ pc = "scaledBoxes"
  /\ regions' = [i \in 1..Len(result) |->
                   ScaledBox(boxes[result[i]], scale, imgWidth, imgHeight)]
  /\ pc' = "regions"
  /\ UNCHANGED <<processVars, componentVars>>
  /\ UNCHANGED <<imgWidth, imgHeight, scale, width, height, data, pData, histogram,
                 threshold, labels, nextLabel, equivalences, pos, boxes,
                 significantBoxes, result>>

\* the regions are cropped and the promise is resolved with them
Resolve ==
  /\ pc = "regions"
  /\ pc' = "resolved"
  /\ UNCHANGED <<processVars, componentVars>>
  /\ UNCHANGED <<imgWidth, imgHeight, scale, width, height, data, pData, histogram,
                 threshold, labels, nextLabel, equivalences, pos, boxes,
                 significantBoxes, result, regions>>

Next ==
  \/ BuildHistogram
  \/ Otsu
  \/ Binarize
  \/ Pass1Step
  \/ Pass2
  \/ ComputeBoxes
  \/ Filter
  \/ MergeBegin
  \/ MergeScan
  \/ ScaleBoxes
  \/ Resolve

Spec == Init /\ [][Next]_vars

\* img.onload runs to its end once it has started: no step waits for another
\* callback.  This is weak fairness of Next, whose steps are enabled exactly until
\* the promise is resolved, written without ENABLED.
FairSpec == Spec /\ (<>[](pc = "resolved") \/ []<><<Next>>_vars)

NextOtsu == BuildHistogram \/ Otsu \/ Binarize

SpecOtsu == InitOtsu /\ [][NextOtsu]_vars

NextLabel ==
  \/ BuildHistogram
  \/ Otsu
  \/ Binarize
  \/ Pass1Step
  \/ Pass2
  \/ ComputeBoxes

SpecLabel == InitLabel /\ [][NextLabel]_vars

(***************************************************************************)
(* processImage, for an image file: it sets isProcessing, calls            *)
(* detectTextRegions and waits for its promise; with the regions it starts *)
(* one recognition call per region and waits for them all; its catch block *)
(* runs when an awaited promise rejects, and its finally block resets      *)
(* isProcessing.  detectTextRegions creates the promise, sets img.onload   *)
(* and img.src, and returns; the promise has a resolve function only, and  *)
(* no handler is set for the image's error event.                          *)
(***************************************************************************)
\* the statements of a recognition call, in order
Statements == <<"fetch", "preprocessImage", "recognizeWithTesseract", "fulfilled">>

ProcessPictures == InkPictures

InitProcess ==
  /\ pc = "idle"
  /\ imgWidth = 0
  /\ imgHeight = 0
  /\ scale = FZero
  /\ width = 0
  /\ height = 0
  /\ data = EmptyMap
  /\ pData = EmptyMap
  /\ histogram = [v \in 0..(HistogramBins - 1) |-> 0]
  /\ threshold = 0
  /\ labels = EmptyMap
  /\ nextLabel = 1
  /\ equivalences = EmptyMap
  /\ pos = 0
  /\ boxes = EmptyMap
  /\ significantBoxes = <<>>
  /\ result = <<>>
  /\ regions = <<>>
  /\ isProcessing = FALSE
  /\ caller = "idle"
  /\ awaited = <<>>
  /\ regionResults = <<>>
  /\ caught = FALSE
  /\ Mounted

\* processImage up to its await of detectTextRegions, which has set img.src
ProcessImage ==
  /\ UNCHANGED componentVars
  /\ caller = "idle"
  /\ isProcessing' = TRUE
  /\ caller' = "detect"
  /\ pc' = "load"
  /\ UNCHANGED <<awaited, regionResults, caught>>
  /\ UNCHANGED <<imgWidth, imgHeight, scale, width, height, data, pData, histogram,
                 threshold, labels, nextLabel, equivalences, pos, boxes,
                 significantBoxes, result, regions>>

\* the file decodes and both canvases give a context: img.onload runs up to
\* the histogram
ImgLoad ==
  /\ pc = "load"
  /\ \E im \in ProcessPictures :
       /\ imgWidth' = im.w
       /\ imgHeight' = im.h
       /\ scale' = ScaleOf(im.w, im.h)
       /\ width' = CanvasW(im.w, im.h)
       /\ height' = CanvasH(im.w, im.h)
       /\ data' = im.d
       /\ pData' = im.d
       /\ labels' = [p \in DOMAIN im.d |-> 0]
  /\ pc' = "histogram"
  /\ UNCHANGED <<processVars, componentVars>>
  /\ UNCHANGED <<histogram, threshold, nextLabel, equivalences, pos, boxes,
                 significantBoxes, result, regions>>

\* the file does not decode: the image's error event fires, for which there
\* is no handler; onload never runs and nothing settles the promise
ImgError ==
  /\ pc = "load"
  /\ pc' = "error"
  /\ UNCHANGED <<processVars, componentVars>>
  /\ UNCHANGED <<imgWidth, imgHeight, scale, width, height, data, pData, histogram,
                 threshold, labels, nextLabel, equivalences, pos, boxes,
                 significantBoxes, result, regions>>

\* getContext returns null for the full-image or the working canvas: onload
\* throws; the exception leaves the event handler, outside the promise
CanvasContextNull ==
  /\ pc = "load"
  /\ pc' = "thrown"
  /\ UNCHANGED <<processVars, componentVars>>
  /\ UNCHANGED <<imgWidth, imgHeight, scale, width, height, data, pData, histogram,
                 threshold, labels, nextLabel, equivalences, pos, boxes,
                 significantBoxes, result, regions>>

\* getContext returns null for a region's canvas: the map callback throws
\* out of onload before resolve is reached
RegionContextNull ==
  /\ pc = "regions"
  /\ Len(regions) > 0
  /\ pc' = "thrown"
  /\ UNCHANGED <<processVars, componentVars>>
  /\ UNCHANGED <<imgWidth, imgHeight, scale, width, height, data, pData, histogram,
                 threshold, labels, nextLabel, equivalences, pos, boxes,
                 significantBoxes, result, regions>>

\* a promise that counts as fulfilled from its creation on
Created(at) == TRUE

\* the promise of detectTextRegions is fulfilled once resolve has been called
Fulfilled(at) == at = "resolved"

\* the await returns the regions; regions.map starts a call for each, which
\* runs up to its first await
StartRecognition ==
  /\ UNCHANGED componentVars
  /\ caller = "detect"
  /\ Fulfilled(pc)
  /\ awaited' = regions
  /\ regionResults' = [i \in 1..Len(regions) |-> Statements[1]]
  /\ caller' = "recognize"
  /\ UNCHANGED <<isProcessing, caught>>
  /\ UNCHANGED <<pc, imgWidth, imgHeight, scale, width, height, data, pData,
                 histogram, threshold, labels, nextLabel, equivalences, pos, boxes,
                 significantBoxes, result, regions>>

\* the recognition call of region i goes on to its next await, or returns
RecognitionStep(i) ==
  /\ UNCHANGED componentVars
  /\ \E k \in 1..(Len(Statements) - 1) :
       /\ regionResults[i] = Statements[k]
       /\ regionResults' = [regionResults EXCEPT ![i] = Statements[k + 1]]
  /\ UNCHANGED <<isProcessing, caller, awaited, caught>>
  /\ UNCHANGED <<pc, imgWidth, imgHeight, scale, width, height, data, pData,
                 histogram, threshold, labels, nextLabel, equivalences, pos, boxes,
                 significantBoxes, result, regions>>

\* what the recognition call of region i awaits rejects
RecognitionFail(i) ==
  /\ UNCHANGED componentVars
  /\ regionResults[i] \notin {"fulfilled", "rejected"}
  /\ regionResults' = [regionResults EXCEPT ![i] = "rejected"]
  /\ UNCHANGED <<isProcessing, caller, awaited, caught>>
  /\ UNCHANGED <<pc, imgWidth, imgHeight, scale, width, height, data, pData,
                 histogram, threshold, labels, nextLabel, equivalences, pos, boxes,
                 significantBoxes, result, regions>>

\* Promise.all is fulfilled: the results are set, then the finally block
SetResult ==
  /\ UNCHANGED componentVars
  /\ caller = "recognize"
  /\ \A i \in DOMAIN regionResults : regionResults[i] = "fulfilled"
  /\ isProcessing' = FALSE
  /\ caller' = "returned"
  /\ UNCHANGED <<awaited, regionResults, caught>>
  /\ UNCHANGED <<pc, imgWidth, imgHeight, scale, width, height, data, pData,
                 histogram, threshold, labels, nextLabel, equivalences, pos, boxes,
                 significantBoxes, result, regions>>

\* Promise.all is rejected: the catch block, then the finally block
Catch ==
  /\ UNCHANGED componentVars
  /\ caller = "recognize"
  /\ \E i \in DOMAIN regionResults : regionResults[i] = "rejected"
  /\ caught' = TRUE
  /\ isProcessing' = FALSE
  /\ caller' = "returned"
  /\ UNCHANGED <<awaited, regionResults>>
  /\ UNCHANGED <<pc, imgWidth, imgHeight, scale, width, height, data, pData,
                 histogram, threshold, labels, nextLabel, equivalences, pos, boxes,
                 significantBoxes, result, regions>>

NextProcess ==
  \/ ProcessImage
  \/ ImgLoad
  \/ ImgError
  \/ CanvasContextNull
  \/ BuildHistogram
  \/ Otsu
  \/ Binarize
  \/ Pass1Step
  \/ Pass2
  \/ ComputeBoxes
  \/ Filter
  \/ MergeBegin
  \/ MergeScan
  \/ ScaleBoxes
  \/ RegionContextNull
  \/ Resolve
  \/ StartRecognition
  \/ \E i \in DOMAIN regionResults : RecognitionStep(i)
  \/ \E i \in DOMAIN regionResults : RecognitionFail(i)
  \/ SetResult
  \/ Catch

SpecProcess == InitProcess /\ [][NextProcess]_vars

(***************************************************************************)
(* The component over several runs of processImage.  Its handlers start a  *)
(* run each; a run is an async function, so the runs in flight take their  *)
(* steps in any order.  A run reads the state through the closure of the   *)
(* render its handler belongs to: the currentPage it hands to pdf.getPage  *)
(* is the one of that render, whatever the handler has set since.  Here    *)
(* the detection and the recognition of a run are one step; the steps      *)
(* inside them are those of processImage above.                            *)
(***************************************************************************)
MaxRuns == 3            \* the handlers start at most MaxRuns runs
MaxPages == 3           \* the PDFs have 2 .. MaxPages pages

Pdf == "application/pdf"

Files ==
  {[type |-> "image/png", numPages |-> 0]}
    \cup {[type |-> Pdf, numPages |-> n] : n \in 2..MaxPages}

\* processImage(file), up to its first await, called by the handler by
StartRun(file, by) ==
  /\ Len(runs) < MaxRuns
  /\ isProcessing' = TRUE
  /\ runs' = Append(runs, [by   |-> by,
                           file |-> file,
                           page |-> currentPage,
                           at   |-> IF file.type = Pdf THEN "getDocument"
                                    ELSE "detectTextRegions"])

HandleFileChange ==
  /\ \E f \in Files :
       /\ files' = f
       /\ StartRun(f, "handleFileChange")
  /\ UNCHANGED <<ocrResult, imagePreview, currentPage, totalPages>>
  /\ UNCHANGED <<caller, awaited, regionResults, caught>>
  /\ UNCHANGED <<pc, imgWidth, imgHeight, scale, width, height, data, pData,
                 histogram, threshold, labels, nextLabel, equivalences, pos, boxes,
                 significantBoxes, result, regions>>

HandleDrop ==
  /\ \E f \in Files : StartRun(f, "handleDrop")
  /\ UNCHANGED <<ocrResult, imagePreview, currentPage, totalPages, files>>
  /\ UNCHANGED <<caller, awaited, regionResults, caught>>
  /\ UNCHANGED <<pc, imgWidth, imgHeight, scale, width, height, data, pData,
                 histogram, threshold, labels, nextLabel, equivalences, pos, boxes,
                 significantBoxes, result, regions>>

\* a run has handed its image to the FileReader of the original preview
Previewed(r) ==
  \/ runs[r].at \in {"detectTextRegions", "returned"}
  \/ /\ runs[r].at = "caught"
     /\ runs[r].file.type = Pdf => runs[r].page \in 1..runs[r].file.numPages

\* the page buttons, shown in the preview panel when totalPages > 1: the
\* previous page unless currentPage is 1, the next page unless currentPage
\* is totalPages
PageButtons ==
  IF totalPages > 1 /\ (isProcessing \/ \E r \in DOMAIN runs : Previewed(r))
  THEN {currentPage - 1 : n \in {1} \ {currentPage}}
         \cup {currentPage + 1 : n \in {totalPages} \ {currentPage}}
  ELSE {}

HandleChangePage ==
  /\ \E newPage \in PageButtons :
       /\ newPage >= 1 /\ newPage <= totalPages
       /\ currentPage' = newPage
       /\ IF files.type = Pdf
          THEN StartRun(files, "handleChangePage")
          ELSE UNCHANGED <<isProcessing, runs>>
  /\ UNCHANGED <<ocrResult, imagePreview, totalPages, files>>
  /\ UNCHANGED <<caller, awaited, regionResults, caught>>
  /\ UNCHANGED <<pc, imgWidth, imgHeight, scale, width, height, data, pData,
                 histogram, threshold, labels, nextLabel, equivalences, pos, boxes,
                 significantBoxes, result, regions>>

ToggleHandwrittenMode ==
  /\ files # NoFile
  /\ StartRun(files, "toggleHandwrittenMode")
  /\ UNCHANGED <<ocrResult, imagePreview, currentPage, totalPages, files>>
  /\ UNCHANGED <<caller, awaited, regionResults, caught>>
  /\ UNCHANGED <<pc, imgWidth, imgHeight, scale, width, height, data, pData,
                 histogram, threshold, labels, nextLabel, equivalences, pos, boxes,
                 significantBoxes, result, regions>>

\* convertPDFToImage of run r: the document is loaded, setTotalPages
GetDocument(r) ==
  /\ runs[r].at = "getDocument"
  /\ totalPages' = runs[r].file.numPages
  /\ runs' = [runs EXCEPT ![r].at = "getPage"]
  /\ UNCHANGED <<isProcessing, ocrResult, imagePreview, currentPage, files>>
  /\ UNCHANGED <<caller, awaited, regionResults, caught>>
  /\ UNCHANGED <<pc, imgWidth, imgHeight, scale, width, height, data, pData,
                 histogram, threshold, labels, nextLabel, equivalences, pos, boxes,
                 significantBoxes, result, regions>>

\* pdf.getPage(currentPage) of run r, with the currentPage of its closure:
\* the page is rendered, or there is no such page and the promise rejects,
\* which takes processImage to its catch and finally blocks
GetPage(r) ==
  /\ runs[r].at = "getPage"
  /\ IF runs[r].page >= 1 /\ runs[r].page <= runs[r].file.numPages
     THEN /\ runs' = [runs EXCEPT ![r].at = "detectTextRegions"]
          /\ UNCHANGED isProcessing
     ELSE /\ runs' = [runs EXCEPT ![r].at = "caught"]
          /\ isProcessing' = FALSE
  /\ UNCHANGED <<ocrResult, imagePreview, currentPage, totalPages, files>>
  /\ UNCHANGED <<caller, awaited, regionResults, caught>>
  /\ UNCHANGED <<pc, imgWidth, imgHeight, scale, width, height, data, pData,
                 histogram, threshold, labels, nextLabel, equivalences, pos, boxes,
                 significantBoxes, result, regions>>

\* what run r rasterizes and recognizes: the file, or the page of the PDF
ResultOf(r) ==
  [run  |-> r,
   file |-> runs[r].file,
   page |-> IF runs[r].file.type = Pdf THEN runs[r].page ELSE 0]

\* the detection and the recognition of run r are through: setOcrResult,
\* setImagePreview, then the finally block
SetOcrResult(r) ==
  /\ runs[r].at = "detectTextRegions"
  /\ ocrResult' = ResultOf(r)
  /\ imagePreview' = ResultOf(r)
  /\ isProcessing' = FALSE
  /\ runs' = [runs EXCEPT ![r].at = "returned"]
  /\ UNCHANGED <<currentPage, totalPages, files>>
  /\ UNCHANGED <<caller, awaited, regionResults, caught>>
  /\ UNCHANGED <<pc, imgWidth, imgHeight, scale, width, height, data, pData,
                 histogram, threshold, labels, nextLabel, equivalences, pos, boxes,
                 significantBoxes, result, regions>>

\* a recognition call of run r rejects: the catch block, then the finally
\* block
RunCatch(r) ==
  /\ runs[r].at = "detectTextRegions"
  /\ isProcessing' = FALSE
  /\ runs' = [runs EXCEPT ![r].at = "caught"]
  /\ UNCHANGED <<ocrResult, imagePreview, currentPage, totalPages, files>>
  /\ UNCHANGED <<caller, awaited, regionResults, caught>>
  /\ UNCHANGED <<pc, imgWidth, imgHeight, scale, width, height, data, pData,
                 histogram, threshold, labels, nextLabel, equivalences, pos, boxes,
                 significantBoxes, result, regions>>

NextComponent ==
  \/ HandleFileChange
  \/ HandleDrop
  \/ HandleChangePage
  \/ ToggleHandwrittenMode
  \/ \E r \in DOMAIN runs : GetDocument(r)
  \/ \E r \in DOMAIN runs : GetPage(r)
  \/ \E r \in DOMAIN runs : SetOcrResult(r)
  \/ \E r \in DOMAIN runs : RunCatch(r)

SpecComponent == InitProcess /\ [][NextComponent]_vars

(***************************************************************************)
(* The between-class variance in exact arithmetic, to compare the          *)
(* threshold with.  The variance changes only at an occupied bin, so the   *)
(* lowest maximizer over all candidates is the lowest over the occupied    *)
(* candidates.                                                             *)
(***************************************************************************)
Occupied(hist) == {v \in DOMAIN hist : hist[v] > 0}

RECURSIVE SetSum(_, _, _)
SetSum(hist, S, weighted) ==
  IF S = {} THEN 0
  ELSE LET v == CHOOSE x \in S : TRUE
       IN  (IF weighted THEN v * hist[v] ELSE hist[v]) + SetSum(hist, S \ {v}, weighted)

ExactWB(hist, t) == SetSum(hist, {v \in Occupied(hist) : v <= t}, FALSE)
ExactSumB(hist, t) == SetSum(hist, {v \in Occupied(hist) : v <= t}, TRUE)

Candidates(hist, total) ==
  {t \in Occupied(hist) : ExactWB(hist, t) > 0 /\ total - ExactWB(hist, t) > 0}

\* the variance at t as a fraction <<numerator, denominator>> of naturals
ExactVariance(hist, total, t) ==
  LET wB   == ExactWB(hist, t)
      wF   == total - wB
      sumB == ExactSumB(hist, t)
      sumF == SetSum(hist, Occupied(hist), TRUE) - sumB
      dev  == sumF * wB - sumB * wF
  IN  <<BigMul(BigFromInt(dev), BigFromInt(dev)), BigFromInt(wB * wF)>>

\* the sign of ExactVariance at t minus ExactVariance at u
ExactCmp(hist, total, t, u) ==
  LET a == ExactVariance(hist, total, t)
      b == ExactVariance(hist, total, u)
  IN  BigCmp(BigMul(a[1], b[2]), BigMul(b[1], a[2]))

LowestMaximizer(hist, total) ==
  LET T == Candidates(hist, total)
  IN  IF T = {} THEN 0
      ELSE CHOOSE t \in T :
             /\ \A u \in T : ExactCmp(hist, total, t, u) >= 0
             /\ \A u \in T : u < t => ExactCmp(hist, total, t, u) > 0

Abs(n) == IF n < 0 THEN 0 - n ELSE n
MinOf(S) == CHOOSE m \in S : \A x \in S : m <= x
MaxOf(S) == CHOOSE m \in S : \A x \in S : m >= x

(***************************************************************************)
(* C4.  Claimed: the threshold is the lowest t that maximizes the          *)
(* between-class variance over the candidates with wB > 0 and wF > 0, and  *)
(* 0 when there is no candidate; a later t of equal variance never         *)
(* replaces an earlier one.  The code compares variances rounded to        *)
(* binary64, so a later t whose exact variance equals the maximum can      *)
(* round higher and replace the earlier one.                               *)
(***************************************************************************)
C4_LowestMaximizer ==
  pc = "binarize" => threshold = LowestMaximizer(histogram, width * height)

\* a threshold that is not the lowest maximizer of the exact variance
C4_Reached ==
  /\ pc = "binarize"
  /\ threshold > LowestMaximizer(histogram, width * height)
  /\ ExactCmp(histogram, width * height, threshold,
              LowestMaximizer(histogram, width * height)) = 0

(***************************************************************************)
(* C5.  Claimed: for a bimodal histogram the threshold is the midpoint of  *)
(* the two peaks, within a small tolerance.                                *)
(***************************************************************************)
Tolerance == 2

TwoPeaks == Cardinality(Occupied(histogram)) = 2
Lo == MinOf(Occupied(histogram))
Hi == MaxOf(Occupied(histogram))

LowCluster == {v \in Occupied(histogram) : 2 * v < HistogramBins}
HighCluster == {v \in Occupied(histogram) : 2 * v >= HistogramBins}

InkPixels == {p \in DOMAIN pData : pData[p] = Ink}

Adjacent(p, q, w) ==
  /\ p # q
  /\ Abs((p % w) - (q % w)) <= 1
  /\ Abs((p \div w) - (q \div w)) <= 1

RECURSIVE Grow(_, _, _)
Grow(C, S, w) ==
  LET more == {q \in S \ C : \E p \in C : Adjacent(p, q, w)}
  IN  IF more = {} THEN C ELSE Grow(C \cup more, S, w)

ComponentOf(p) == Grow({p}, InkPixels, width)

(***************************************************************************)
(* C2.  Claimed: pass 2 gives all the foreground pixels of one connected   *)
(* component the same label, the smallest provisional label pass 1 gave    *)
(* to a pixel of the component, also when an entry of the equivalence      *)
(* table was overwritten by a later record.                                *)
(***************************************************************************)
C2_CanonicalLabel ==
  [][pc = "pass2" =>
       \A p \in InkPixels : labels'[p] = MinOf({labels[q] : q \in ComponentOf(p)})]_vars

\* pass 2 has left two labels in one connected component
C2_Reached ==
  /\ pc = "boxes"
  /\ \E p \in InkPixels : \E q \in ComponentOf(p) : labels[p] # labels[q]

(***************************************************************************)
(* What a run has behind it.                                               *)
(***************************************************************************)
AfterOtsu == pc \notin {"histogram", "otsu"}
AfterBinarize == pc \notin {"histogram", "otsu", "binarize"}
AfterPass1 == pc \notin {"histogram", "otsu", "binarize", "pass1"}

Values == {data[p] : p \in DOMAIN data}
NoLabel == nextLabel = 1 /\ \A p \in DOMAIN labels : labels[p] = 0

(***************************************************************************)
(* C1.  Claimed: a picture that is white but for one isolated filled       *)
(* black rectangle, larger than the minimum area on the canvas, yields     *)
(* one region, whose bbox is the rectangle dilated by the padding and      *)
(* clamped to the picture.                                                 *)
(***************************************************************************)
Black == {p \in DOMAIN data : data[p] = 0}
BlackMinX == MinOf({p % width : p \in Black})
BlackMaxX == MaxOf({p % width : p \in Black})
BlackMinY == MinOf({p \div width : p \in Black})
BlackMaxY == MaxOf({p \div width : p \in Black})

RectInput ==
  /\ Values = {0, Paper}
  /\ \A p \in DOMAIN data :
       p \in Black <=> /\ BlackMinX <= p % width /\ p % width <= BlackMaxX
                       /\ BlackMinY <= p \div width /\ p \div width <= BlackMaxY
  /\ BlackMinX > 0 /\ BlackMaxX < width - 1
  /\ BlackMinY > 0 /\ BlackMaxY < height - 1
  /\ (BlackMaxX - BlackMinX) * (BlackMaxY - BlackMinY) > minArea

\* the rectangle in the picture's coordinates (the scale of these pictures
\* is an integer), dilated and clamped
RectBBox ==
  LET s == FFloor(scale)
  IN  [x0 |-> Max2(0, BlackMinX \div s - padding),
       y0 |-> Max2(0, BlackMinY \div s - padding),
       x1 |-> Min2(imgWidth, (BlackMaxX + 1) \div s + padding),
       y1 |-> Min2(imgHeight, (BlackMaxY + 1) \div s + padding)]

UniformInput == Cardinality(Values) = 1

UniformRun ==
  UniformInput =>
    /\ AfterOtsu => threshold = 0
    /\ AfterBinarize => InkPixels = {}
    /\ NoLabel
    /\ boxes = EmptyMap /\ regions = <<>>

C6_Uniform ==
  /\ []UniformRun
  /\ (UniformInput /\ pc = "histogram") ~> (UniformInput /\ pc = "resolved")

C6_Witness ==
  UniformInput /\ pc = "resolved" /\ threshold = 0 /\ regions = <<>>

(***************************************************************************)
(* C7.  Claimed: a canvas with no luminance below a light level gets the   *)
(* threshold 0, no label and the empty set of boxes.                       *)
(***************************************************************************)
LightInput == \A v \in Values : v >= LightLevel

C7_NoDarkPixels ==
  LightInput =>
    /\ AfterOtsu => threshold = 0
    /\ NoLabel
    /\ boxes = EmptyMap /\ regions = <<>>

(* C7, amended.  The threshold of a light canvas is 0 only when the canvas *)
(* is uniform; otherwise it is one of the canvas's luminances, below the   *)
(* highest, and exactly the pixels below it are labelled.  With at most    *)
(* two luminances the threshold is the lower one (0 when uniform), no      *)
(* label is assigned and the set of boxes is empty.                        *)
C7_LightThreshold ==
  LightInput =>
    /\ AfterOtsu =>
         /\ UniformInput => threshold = 0
         /\ ~UniformInput => (threshold \in Values /\ threshold < MaxOf(Values))
    /\ AfterPass1 => \A p \in DOMAIN labels : labels[p] > 0 <=> data[p] < threshold
    /\ Cardinality(Values) <= 2 =>
         /\ (AfterOtsu /\ ~UniformInput) => threshold = MinOf(Values)
         /\ NoLabel
         /\ boxes = EmptyMap /\ regions = <<>>

\* a light canvas of two luminances, resolved: thresholded at the lower one
C7_Witness ==
  /\ LightInput /\ Cardinality(Values) = 2
  /\ pc = "resolved"
  /\ threshold = MinOf(Values)
  /\ regions = <<>>

(***************************************************************************)
(* The box stages on their own.  These runs start at the noise filter,     *)
(* with the boxes the extent loop left; the canvas is not kept in them.    *)
(* The keys of the boxes are labels, so Object.values lists them in the    *)
(* order their components were met: by ascending minY.                     *)
(***************************************************************************)
BoxSide == 25           \* the sides of the boxes: BoxSide, up to BoxSide + 6
MaxBoxes == 3
MergeImg == 56          \* a 56 x 56 picture: a 112 x 112 canvas

Coords ==
  {0, BoxSide, BoxSide + distance, BoxSide + distance + 1,
   BoxSide + 2 * distance + 1, 2 * BoxSide + 2 * distance + 1}

Intervals == {ab \in Coords \X Coords : ab[1] < ab[2] /\ ab[2] - ab[1] <= BoxSide + 6}

GridBoxes ==
  {[minX |-> x[1], minY |-> y[1], maxX |-> x[2], maxY |-> y[2]] :
     x \in Intervals, y \in Intervals}

BoxLists ==
  UNION {{bs \in [1..n -> GridBoxes] :
            /\ \A i \in 1..(n - 1) : bs[i].minY <= bs[i + 1].minY
            /\ \A i, j \in 1..n : i # j => bs[i] # bs[j]} : n \in 0..MaxBoxes}

\* the state at the statement at (filter, scaledBoxes) of a run on a w x h
\* picture whose boxes are bx and whose merged list is res
Stage(at, w, h, bx, res) ==
  /\ pc = at
  /\ imgWidth = w
  /\ imgHeight = h
  /\ scale = ScaleOf(w, h)
  /\ width = CanvasW(w, h)
  /\ height = CanvasH(w, h)
  /\ data = EmptyMap
  /\ pData = EmptyMap
  /\ histogram = [v \in 0..(HistogramBins - 1) |-> 0]
  /\ threshold = 0
  /\ labels = EmptyMap
  /\ nextLabel = 1
  /\ equivalences = EmptyMap
  /\ pos = CanvasW(w, h) * CanvasH(w, h)
  /\ boxes = bx
  /\ significantBoxes = res
  /\ result = res
  /\ regions = <<>>
  /\ Detecting
  /\ Mounted

InitMerge == \E bs \in BoxLists : Stage("filter", MergeImg, MergeImg, bs, <<>>)

NextMerge == Filter \/ MergeBegin \/ MergeScan

SpecMerge == InitMerge /\ [][NextMerge]_vars

\* mergeBoxes returns once it is called: its loop waits for nothing (weak
\* fairness of NextMerge, whose steps are enabled until mergeBoxes returns)
FairSpecMerge == SpecMerge /\ (<>[](pc = "scaledBoxes") \/ []<><<NextMerge>>_vars)

RegionImg == 44         \* pictures of RegionImg .. RegionImg + 2 pixels a side,
RegionLo == 18          \* boxes from RegionLo .. RegionLo + RegionSpan
RegionHi == 72          \* to RegionHi .. RegionHi + RegionSpan
RegionSpan == 9

RegionBoxes ==
  {[minX |-> a, minY |-> c[1], maxX |-> b, maxY |-> c[2]] :
     a \in RegionLo..(RegionLo + RegionSpan),
     b \in RegionHi..(RegionHi + RegionSpan),
     c \in {<<0, RegionHi>>, <<RegionLo + RegionSpan, RegionHi>>,
            <<RegionLo + RegionSpan, RegionHi + RegionSpan>>}}

InitRegion ==
  \E w \in {RegionImg, RegionImg + 1, RegionImg + 2, MergeImg} :
    \E b \in RegionBoxes :
      /\ b.maxX < CanvasW(w, w) /\ b.maxY < CanvasH(w, w)
      /\ IsSignificant(b)
      /\ Stage("scaledBoxes", w, w, [k \in {1} |-> b], <<1>>)

NextRegion == ScaleBoxes \/ Resolve

SpecRegion == InitRegion /\ [][NextRegion]_vars

(***************************************************************************)
(* Two boxes that overlap on one axis and lie apart on the other; the gap  *)
(* is the difference of the facing coordinates.                            *)
(***************************************************************************)
OverlapX(b1, b2) == b1.minX <= b2.maxX /\ b2.minX <= b1.maxX
OverlapY(b1, b2) == b1.minY <= b2.maxY /\ b2.minY <= b1.maxY
GapX(b1, b2) == Max2(b2.minX - b1.maxX, b1.minX - b2.maxX)
GapY(b1, b2) == Max2(b2.minY - b1.maxY, b1.minY - b2.maxY)

\* the two boxes of the working list overlap on one axis and are gap apart
\* on the other, for a gap in the set G
TwoApart(G) ==
  /\ pc = "merge"
  /\ Len(significantBoxes) = 2 /\ Len(result) = 2
  /\ LET b1 == boxes[result[1]]
         b2 == boxes[result[2]]
     IN  \/ OverlapY(b1, b2) /\ GapX(b1, b2) > 0 /\ GapX(b1, b2) \in G
         \/ OverlapX(b1, b2) /\ GapY(b1, b2) > 0 /\ GapY(b1, b2) \in G

\* the pass merges the two boxes into their union, held by the first
MergedIntoUnion ==
  /\ Len(result') = 1
  /\ result'[1] = result[1]
  /\ boxes'[result[1]] = Union(boxes[result[1]], boxes[result[2]])

\* the pass leaves the list and the boxes alone and ends the loop
ReturnedUnchanged == result' = result /\ boxes' = boxes /\ pc' = "scaledBoxes"

FarthestGap == 2 * BoxSide + 2 * distance + 1

(***************************************************************************)
(* C3.  Claimed: two surviving boxes that overlap on one axis and are      *)
(* less than twice the merge distance (2 x 30) apart on the other are      *)
(* merged into their union; more than that apart, they are returned        *)
(* unchanged.                                                              *)
(***************************************************************************)
C3_TwiceDistance ==
  [][/\ TwoApart(1..(2 * distance - 1)) => MergedIntoUnion
     /\ TwoApart((2 * distance + 1)..FarthestGap) => ReturnedUnchanged]_vars

(* C3, amended.  The two boxes are merged into their union when the gap    *)
(* is at most the merge distance (30), and returned unchanged when it is   *)
(* larger; a list of one box is returned as it is.                         *)
C3_Distance ==
  [][/\ TwoApart(1..distance) => MergedIntoUnion
     /\ TwoApart((distance + 1)..FarthestGap) => ReturnedUnchanged
     /\ (pc = "merge" /\ Len(result) = 1) => ReturnedUnchanged]_vars

\* two boxes that lay apart, returned as one
C3_Witness ==
  /\ pc = "scaledBoxes"
  /\ Len(significantBoxes) = 2 /\ Len(result) = 1
  /\ boxes[result[1]].maxX - boxes[result[1]].minX >= 2 * BoxSide + distance

(***************************************************************************)
(* C8.  mergeBoxes is idempotent: applied to the list it returned, it      *)
(* returns the same boxes, because no two of them are close.               *)
(***************************************************************************)
C8_Idempotent ==
  pc = "scaledBoxes" =>
    /\ ClosePairs(boxes, result) = {}
    /\ mergeBoxes(boxes, result).result = result
    /\ mergeBoxes(boxes, result).boxes = boxes

\* a returned list of two or more boxes that a merge went into
C8_Witness ==
  /\ pc = "scaledBoxes"
  /\ Len(result) >= 2
  /\ Len(result) < Len(significantBoxes)

(***************************************************************************)
(* C9.  mergeBoxes terminates: a pass of its loop either merges two boxes, *)
(* which takes exactly one box off the list, or merges none and is the     *)
(* last; the list never grows and never empties, so there are at most      *)
(* n - 1 merges; and the loop ends.                                        *)
(***************************************************************************)
C9_Terminates ==
  /\ [][pc = "merge" =>
          \/ Len(result') = Len(result) - 1 /\ pc' = "merge"
          \/ ReturnedUnchanged]_vars
  /\ [](pc = "merge" => (1 <= Len(result) /\ Len(result) <= Len(significantBoxes)))
  /\ (pc = "merge") ~> (pc = "scaledBoxes")

\* a list of MaxBoxes boxes returned after MaxBoxes - 1 merges
C9_Witness ==
  /\ pc = "scaledBoxes"
  /\ Len(significantBoxes) = MaxBoxes
  /\ Len(result) = 1

(***************************************************************************)
(* Exact comparisons with the scale, a binary64 m * 2^e.                   *)
(***************************************************************************)
\* the sign of k * sc - n, for an integer k and a natural n
ScaleCmp(k, sc, n) ==
  IF k < 0 THEN -1
  ELSE LET km == BigMul(BigFromInt(k), sc.m)
       IN  IF sc.e >= 0 THEN BigCmp(BigShl(km, sc.e), BigFromInt(n))
           ELSE BigCmp(km, BigShl(BigFromInt(n), 0 - sc.e))

\* c is within 1 of n / sc
Within1(c, sc, n) == ScaleCmp(c - 1, sc, n) <= 0 /\ ScaleCmp(c + 1, sc, n) >= 0

(***************************************************************************)
(* C10.  Claimed: with the padding taken back out, every coordinate of a   *)
(* region's bbox is within 1 px of the box's coordinate divided by the     *)
(* scale, also for a box closer than the padding to a border.              *)
(***************************************************************************)
C10_RoundTrip ==
  pc = "regions" =>
    \A i \in 1..Len(regions) :
      /\ Within1(regions[i].x0 + padding, scale, boxes[result[i]].minX)
      /\ Within1(regions[i].y0 + padding, scale, boxes[result[i]].minY)
      /\ Within1(regions[i].x1 - padding, scale, boxes[result[i]].maxX)
      /\ Within1(regions[i].y1 - padding, scale, boxes[result[i]].maxY)

(* C10, amended.  A coordinate the clamp leaves alone (minX / s at least   *)
(* the padding, maxX / s at most the width less the padding, and likewise  *)
(* in y) is within 1 px; a clamped one is 0, or the picture's width or     *)
(* height.                                                                 *)
C10_Unclamped ==
  pc = "regions" =>
    \A i \in 1..Len(regions) :
      LET b == boxes[result[i]]
          r == regions[i]
      IN  /\ IF ScaleCmp(padding, scale, b.minX) <= 0
             THEN Within1(r.x0 + padding, scale, b.minX) ELSE r.x0 = 0
          /\ IF ScaleCmp(padding, scale, b.minY) <= 0
             THEN Within1(r.y0 + padding, scale, b.minY) ELSE r.y0 = 0
          /\ IF ScaleCmp(imgWidth - padding, scale, b.maxX) >= 0
             THEN Within1(r.x1 - padding, scale, b.maxX) ELSE r.x1 = imgWidth
          /\ IF ScaleCmp(imgHeight - padding, scale, b.maxY) >= 0
             THEN Within1(r.y1 - padding, scale, b.maxY) ELSE r.y1 = imgHeight

\* a region of a scale that is no integer, none of whose coordinates is
\* clamped
C10_Witness ==
  /\ pc = "regions"
  /\ Len(regions) = 1
  /\ scale.e < 0
  /\ regions[1].x0 > 0 /\ regions[1].y0 > 0
  /\ regions[1].x1 < imgWidth /\ regions[1].y1 < imgHeight


(***************************************************************************)
(* The translation to regions on lists of merged boxes.  These runs start  *)
(* at scaledBoxes with a list mergeBoxes can return: significant boxes     *)
(* inside the canvas, no two of them close, some of them at the borders.   *)
(***************************************************************************)
MaxRegions == 2

EdgeIntervals(n) ==
  {ab \in {0, RegionLo, RegionHi, n - 1} \X {0, RegionLo, RegionHi, n - 1} : ab[1] < ab[2]}

EdgeBoxes(cw, ch) ==
  {b \in {[minX |-> x[1], minY |-> y[1], maxX |-> x[2], maxY |-> y[2]] :
            x \in EdgeIntervals(cw), y \in EdgeIntervals(ch)} : IsSignificant(b)}

MergedLists(cw, ch) ==
  UNION {{bs \in [1..n -> EdgeBoxes(cw, ch)] :
            /\ \A i \in 1..(n - 1) : bs[i].minY <= bs[i + 1].minY
            /\ \A i, j \in 1..n : i # j => ~isClose(bs[i], bs[j])} : n \in 0..MaxRegions}

InitRegions ==
  \E w \in {RegionImg, RegionImg + 2} : \E h \in {RegionImg, RegionImg + 1, MergeImg} :
    \E bs \in MergedLists(CanvasW(w, h), CanvasH(w, h)) :
      Stage("scaledBoxes", w, h, bs, [i \in 1..Len(bs) |-> i])

SpecRegions == InitRegions /\ [][NextRegion]_vars

(***************************************************************************)
(* C11.  Every region's bbox is clamped to the picture and not empty:      *)
(* 0 <= x0 < x1 <= width and 0 <= y0 < y1 <= height, for every merged box  *)
(* and every scale, which is at least 2; there is one region per merged    *)
(* box, in the order of the merged list: the i-th region covers the i-th   *)
(* box, taken to the picture's coordinates.                                *)
(***************************************************************************)
C11_Clamped ==
  pc \in {"regions", "resolved"} =>
    /\ FCmp(scale, FFromInt(MinScale)) >= 0
    /\ Len(regions) = Len(result)
    /\ \A i \in 1..Len(regions) :
         LET b == boxes[result[i]]
             r == regions[i]
         IN  /\ 0 <= r.x0 /\ r.x0 < r.x1 /\ r.x1 <= imgWidth
             /\ 0 <= r.y0 /\ r.y0 < r.y1 /\ r.y1 <= imgHeight
             /\ ScaleCmp(r.x0, scale, b.minX) <= 0 /\ ScaleCmp(r.x1, scale, b.maxX) >= 0
             /\ ScaleCmp(r.y0, scale, b.minY) <= 0 /\ ScaleCmp(r.y1, scale, b.maxY) >= 0

\* two regions of a scale above 2, the first clamped at the left and the
\* second at the right border of the picture
C11_Witness ==
  /\ pc = "resolved"
  /\ Len(regions) = 2
  /\ FCmp(scale, FFromInt(MinScale)) > 0
  /\ regions[1].x0 = 0 /\ regions[1].x1 < imgWidth
  /\ regions[2].x0 > 0 /\ regions[2].x1 = imgWidth


(***************************************************************************)
(* C12.  In a run of processImage the detection runs once and to its end   *)
(* before any recognition: no recognition call (fetch, preprocessImage,    *)
(* recognizeWithTesseract) has started unless detectTextRegions has        *)
(* resolved, and then processImage holds the complete list, one region per *)
(* merged box, and there is one call per region; the promise is resolved   *)
(* at most once: once resolved, the regions never change, and the image is *)
(* loaded once.                                                            *)
(***************************************************************************)
C12_DetectionFirst ==
  /\ [](caller \in {"idle", "detect"} => regionResults = <<>>)
  /\ [](caller \in {"recognize", "returned"} =>
          /\ pc = "resolved"
          /\ awaited = regions
          /\ Len(awaited) = Len(result)
          /\ DOMAIN regionResults = 1..Len(awaited))
  /\ [][/\ pc = "resolved" => (pc' = "resolved" /\ regions' = regions)
        /\ pc' = "load" => pc = "idle"]_vars

\* two regions, the recognition of the first ahead of the second's
C12_Witness ==
  /\ caller = "recognize"
  /\ Len(awaited) = 2
  /\ regionResults[1] = "recognizeWithTesseract"
  /\ regionResults[2] = "fetch"

\* no stage of the pipeline has run
NoStageRan ==
  /\ data = EmptyMap /\ pData = EmptyMap /\ labels = EmptyMap
  /\ boxes = EmptyMap /\ regions = <<>>

\* the run is over (the finally block has reset isProcessing) by way of
\* the catch block
Surfaced == caught /\ ~isProcessing /\ caller = "returned"

(***************************************************************************)
(* C13.  Claimed: when the file does not decode, no stage runs on it and   *)
(* detectTextRegions rejects; the rejection reaches processImage's catch   *)
(* block and isProcessing returns to false, so that the run never stays    *)
(* pending: where the run cannot go on, it has surfaced the error.         *)
(***************************************************************************)
C13_DecodeRejects ==
  pc = "error" => (NoStageRan /\ (Surfaced \/ ENABLED NextProcess))

\* the file did not decode: processImage waits for a promise that nothing
\* settles, isProcessing is still true and the catch block has not run
C13_Reached ==
  /\ pc = "error"
  /\ caller = "detect" /\ isProcessing /\ ~caught
  /\ NoStageRan

(***************************************************************************)
(* C14.  Claimed: when getContext returns null for the full-image, the     *)
(* working or a region canvas, the promise of detectTextRegions rejects,   *)
(* processImage's catch block runs and isProcessing returns to false; no   *)
(* region list is returned: where the run cannot go on, it has surfaced    *)
(* the error.                                                              *)
(***************************************************************************)
C14_ContextRejects ==
  pc = "thrown" => (awaited = <<>> /\ (Surfaced \/ ENABLED NextProcess))

\* a region canvas gave no context after the regions were computed:
\* processImage waits for a promise that nothing settles
C14_Reached ==
  /\ pc = "thrown"
  /\ Len(regions) > 0
  /\ caller = "detect" /\ isProcessing /\ ~caught


(***************************************************************************)
(* The while loop of resolveLabel, cut off after n iterations.             *)
(***************************************************************************)
LoopGuard(eq, curr) == curr \in DOMAIN eq /\ eq[curr] # 0 /\ eq[curr] # curr

RECURSIVE Iterate(_, _, _)
Iterate(eq, curr, n) ==
  IF n = 0 \/ ~LoopGuard(eq, curr) THEN curr ELSE Iterate(eq, eq[curr], n - 1)

(***************************************************************************)
(* C15.  At every point of pass 1, and after it, every entry of the        *)
(* equivalence table maps a label to a strictly smaller positive label;    *)
(* so the table has no cycle and the loop of resolveLabel ends, for every  *)
(* label, within as many iterations as the table has entries, at a label   *)
(* that has no entry and is at most the argument; resolveLabel(0) = 0.     *)
(***************************************************************************)
C15_Acyclic ==
  /\ \A k \in DOMAIN equivalences : 0 < equivalences[k] /\ equivalences[k] < k
  /\ \A l \in 0..nextLabel :
       LET end == Iterate(equivalences, l, Cardinality(DOMAIN equivalences))
       IN  /\ ~LoopGuard(equivalences, end)
           /\ resolveLabel(equivalences, l) = end
           /\ end \notin DOMAIN equivalences
           /\ end <= l
  /\ resolveLabel(equivalences, 0) = 0

\* in the middle of pass 1, a chain of two entries: a label resolved in
\* two iterations
C15_Witness ==
  /\ pc = "pass1"
  /\ pos < width * height
  /\ \E l \in DOMAIN equivalences :
       /\ equivalences[l] \in DOMAIN equivalences
       /\ resolveLabel(equivalences, l) < equivalences[l]


(***************************************************************************)
(* C16.  The mask (left, top, top-left, top-right) is enough for the       *)
(* raster scan: when pass 1 processes a foreground pixel q, every          *)
(* foreground pixel p that is 8-adjacent to q and was visited before it,   *)
(* also one adjacent only through a diagonal, is in the mask of q, its     *)
(* label is among the pushed ones, and right after the step p and q have   *)
(* the same label or the larger of their labels is mapped to the smaller   *)
(* in the equivalence table.                                               *)
(***************************************************************************)
C16_CausalMask ==
  [][(pc = "pass1" /\ pc' = "pass1") =>
       LET q == pos' - 1
           pushed == Neighbors(pData, labels, width, q)
       IN  \A p \in InkPixels :
             (p < q /\ Adjacent(p, q, width)) =>
               /\ p \in {q - 1, q - width, q - width - 1, q - width + 1}
               /\ \E i \in 1..Len(pushed) : pushed[i] = labels[p]
               /\ labels'[p] > 0 /\ labels'[q] > 0
               /\ \/ labels'[q] = labels'[p]
                  \/ /\ Max2(labels'[p], labels'[q]) \in DOMAIN equivalences'
                     /\ equivalences'[Max2(labels'[p], labels'[q])]
                          = Min2(labels'[p], labels'[q])]_vars

\* right after a pixel whose left neighbour had a larger label than its
\* top-right one, the only other pixel of its mask: the larger label is
\* mapped to the smaller
C16_Witness ==
  /\ pc = "pass1"
  /\ pos > width /\ (pos - 1) % width > 0 /\ (pos - 1) % width < width - 1
  /\ LET q == pos - 1
     IN  /\ pData[q] = Ink /\ pData[q - 1] = Ink /\ pData[q - width + 1] = Ink
         /\ pData[q - width] = Paper /\ pData[q - width - 1] = Paper
         /\ labels[q - 1] > labels[q - width + 1]
         /\ labels[q] = labels[q - width + 1]
         /\ labels[q - 1] \in DOMAIN equivalences
         /\ equivalences[labels[q - 1]] = labels[q]


(***************************************************************************)
(* The noise filter on boxes around the minimum area.  These runs start at *)
(* the filter with boxes whose sides are close to the square root of the   *)
(* minimum area, under keys that need not be consecutive.                  *)
(***************************************************************************)
FilterSide == 19        \* the sides of the boxes: FilterSide .. FilterSide + 2
MaxKey == 3             \* the labels of the boxes are among 1 .. MaxKey

FilterBoxes ==
  {[minX |-> o, minY |-> o, maxX |-> o + w, maxY |-> o + h] :
     o \in {0, 5}, w \in FilterSide..(FilterSide + 2), h \in FilterSide..(FilterSide + 2)}

FilterInputs ==
  UNION {{bx \in [K -> FilterBoxes] :
            \A k, l \in K : k < l => bx[k].minY <= bx[l].minY} : K \in SUBSET (1..MaxKey)}

InitFilter == \E bx \in FilterInputs : Stage("filter", MergeImg, MergeImg, bx, <<>>)

NextFilter == Filter

SpecFilter == InitFilter /\ [][NextFilter]_vars

(***************************************************************************)
(* C17.  The noise filter keeps a box if and only if                       *)
(* (maxX - minX) * (maxY - minY) > 400, the extents being differences of   *)
(* coordinates and not numbers of pixels; it leaves the boxes as they are  *)
(* and keeps them in the order Object.values lists them.                   *)
(***************************************************************************)
C17_NoiseFilter ==
  [][pc = "filter" =>
       /\ boxes' = boxes
       /\ \A k \in DOMAIN boxes :
            (\E i \in 1..Len(significantBoxes') : significantBoxes'[i] = k)
              <=> (boxes[k].maxX - boxes[k].minX) * (boxes[k].maxY - boxes[k].minY) > 400
       /\ \A i, j \in 1..Len(significantBoxes') :
            i < j => significantBoxes'[i] < significantBoxes'[j]]_vars

\* of three boxes the filter has kept the first and the last: the one
\* between them spans more than 400 pixels, but its extents multiply to
\* less
C17_Witness ==
  /\ pc = "mergeBoxes"
  /\ DOMAIN boxes = {1, 2, 3}
  /\ significantBoxes = <<1, 3>>
  /\ (boxes[2].maxX - boxes[2].minX + 1) * (boxes[2].maxY - boxes[2].minY + 1) > 400
  /\ (boxes[2].maxX - boxes[2].minX) * (boxes[2].maxY - boxes[2].minY) < 400
  /\ (boxes[1].maxX - boxes[1].minX) * (boxes[1].maxY - boxes[1].minY) = 420


(***************************************************************************)
(* The cells of the label grid that carry the label k.                     *)
(***************************************************************************)
Cells(k) == {p \in DOMAIN labels : labels[p] = k}

TightBox(k) ==
  [minX |-> MinOf({p % width : p \in Cells(k)}),
   minY |-> MinOf({p \div width : p \in Cells(k)}),
   maxX |-> MaxOf({p % width : p \in Cells(k)}),
   maxY |-> MaxOf({p \div width : p \in Cells(k)})]

(***************************************************************************)
(* C18.  The extent loop makes exactly one box per label present in the    *)
(* label grid after pass 2, the tight bounding box of the cells that carry *)
(* the label; and every box has minX <= maxX and minY <= maxY, in every    *)
(* state from its creation through every merge step.                       *)
(***************************************************************************)
C18_TightBoxes ==
  /\ pc = "filter" =>
       /\ DOMAIN boxes = {labels[p] : p \in DOMAIN labels} \ {0}
       /\ \A k \in DOMAIN boxes : boxes[k] = TightBox(k)
  /\ \A k \in DOMAIN boxes :
       boxes[k].minX <= boxes[k].maxX /\ boxes[k].minY <= boxes[k].maxY

\* two labels, two boxes, merged into one that is wider than the cells of
\* its label
C18_Witness ==
  /\ pc = "scaledBoxes"
  /\ Cardinality(DOMAIN boxes) = 2
  /\ Cardinality({labels[p] : p \in DOMAIN labels} \ {0}) = 2
  /\ Len(result) = 1
  /\ boxes[result[1]].minX = TightBox(result[1]).minX
  /\ boxes[result[1]].maxX > TightBox(result[1]).maxX


(***************************************************************************)
(* C19.  A canvas whose pixels take exactly two luminances, black marks on *)
(* white for one, gets the darker of the two as its threshold; a pixel is  *)
(* ink only strictly below the threshold, so no pixel is ink and the list  *)
(* of regions is empty.                                                    *)
(***************************************************************************)
C19_TwoValued ==
  Cardinality(Values) = 2 =>
    /\ AfterOtsu => threshold = MinOf(Values)
    /\ AfterBinarize => \A p \in DOMAIN pData : pData[p] = Paper
    /\ boxes = EmptyMap
    /\ regions = <<>>

\* black marks of more than the minimum area on white, resolved with no
\* region
C19_Witness ==
  /\ pc = "resolved"
  /\ Values = {0, Paper}
  /\ Cardinality(Black) > minArea
  /\ threshold = 0
  /\ InkPixels = {}
  /\ regions = <<>>


(***************************************************************************)
(* The lists mergeBoxes can be given the boxes of a list in, and the set   *)
(* of boxes a call returns.                                                *)
(***************************************************************************)
Permutations(list) ==
  {[i \in 1..Len(list) |-> list[f[i]]] :
     f \in {g \in [1..Len(list) -> 1..Len(list)] :
              \A i, j \in 1..Len(list) : i # j => g[i] # g[j]}}

Returned(bx, list) ==
  LET m == mergeBoxes(bx, list)
  IN  {m.boxes[m.result[i]] : i \in 1..Len(m.result)}

\* the list mergeBoxes is called with, then the list its loop works on
Working == IF pc = "mergeBoxes" THEN significantBoxes ELSE result

(***************************************************************************)
(* C20.  The set of boxes mergeBoxes returns does not depend on the order  *)
(* of its list: for the list it is called with, and for the list its loop  *)
(* holds at any later point, every permutation of the list gives the same  *)
(* set of boxes; and the set returned in the end is that set.              *)
(***************************************************************************)
C20_OrderIndependent ==
  /\ \A perm \in Permutations(Working) : Returned(boxes, perm) = Returned(boxes, Working)
  /\ pc = "scaledBoxes" =>
       Returned(boxes, result) = {boxes[result[i]] : i \in 1..Len(result)}

\* a call with three boxes of which the first two are not close, but each
\* is close to the third: the list in this order and the list with the
\* third box first merge different pairs first, and return the same box
C20_Witness ==
  /\ pc = "mergeBoxes"
  /\ Len(significantBoxes) = 3
  /\ ~isClose(boxes[significantBoxes[1]], boxes[significantBoxes[2]])
  /\ isClose(boxes[significantBoxes[1]], boxes[significantBoxes[3]])
  /\ isClose(boxes[significantBoxes[2]], boxes[significantBoxes[3]])
  /\ Cardinality(Returned(boxes, significantBoxes)) = 1


(***************************************************************************)
(* Runs that are over, by way of setOcrResult or of the catch block, and   *)
(* runs still in flight.                                                   *)
(***************************************************************************)
Over(r) == runs[r].at \in {"returned", "caught"}
InFlight == {r \in DOMAIN runs : ~Over(r)}

(***************************************************************************)
(* C21.  Claimed: when processImage is started again while an earlier run  *)
(* is in flight, the ocrResult and the imagePreview shown once the runs    *)
(* are over are those of the run started last, in whatever order the runs  *)
(* end; and isProcessing stays true until the last run in flight is over.  *)
(***************************************************************************)
C21_LatestRunWins ==
  /\ (Len(runs) >= 2 /\ InFlight = {} /\ \A r \in DOMAIN runs : runs[r].at = "returned") =>
       (ocrResult = ResultOf(Len(runs)) /\ imagePreview = ResultOf(Len(runs)))
  /\ InFlight # {} => isProcessing

\* two runs on different files, both over with a result: the result shown
\* is that of the run started first
C21_Reached ==
  /\ Len(runs) = 2
  /\ runs[1].at = "returned" /\ runs[2].at = "returned"
  /\ runs[1].file # runs[2].file
  /\ ocrResult = ResultOf(1) /\ imagePreview = ResultOf(1)
  /\ ~isProcessing

(***************************************************************************)
(* C22.  Claimed: the run that handleChangePage(newPage) starts, for       *)
(* 1 <= newPage <= totalPages and a PDF selected, hands newPage to         *)
(* pdf.getPage; and currentPage is within 1 .. totalPages in every state,  *)
(* also after a PDF of fewer pages is loaded.                              *)
(***************************************************************************)
C22_PageChange ==
  /\ [][(Len(runs') = Len(runs) + 1 /\ runs'[Len(runs')].by = "handleChangePage") =>
          runs'[Len(runs')].page = currentPage']_vars
  /\ [](1 <= currentPage /\ currentPage <= totalPages)

\* the run of a page change is over: the result shown is of the page
\* before the change, under the number of the page after it
C22_Reached ==
  /\ Len(runs) = 2
  /\ runs[2].by = "handleChangePage" /\ runs[2].at = "returned"
  /\ ocrResult = ResultOf(2)
  /\ currentPage = 2 /\ ocrResult.page = 1

=============================================================================
